---------------------------- MODULE Spec2Model ----------------------------
(***************************************************************************)
(* A model of photo_watermark.py: the metadata extractor (get_exif_date),   *)
(* the watermark renderer (add_watermark_to_image) and the path walker      *)
(* (process_path), together with the os.path functions they rely on.        *)
(*                                                                          *)
(* Paths are strings, exactly as the program sees them.  The file system is *)
(* a set of files; a file is named by its canonical path, the sequence of   *)
(* the names leading to it from the root directory "/".                     *)
(***************************************************************************)
EXTENDS Integers, Sequences, FiniteSets, TLC

(***************************************************************************)
(* The state: one run of process_path, and, for one image, the choice of    *)
(* the text, the placement of the text and its fill.                        *)
(***************************************************************************)
\* One run of process_path.
VARIABLES
  input_path,     \* the --path argument, as typed
  fs0,            \* the files that exist when the run starts
  fs,             \* the files that exist now
  pc,             \* "start", "walk" (inside the os.walk loop), "done"
  output_dir,     \* process_path's output_dir, "" before it is computed
  stack,          \* os.walk: the directories still to scan, last one first
  root,           \* os.walk: the directory whose files are being iterated
  files,          \* the files of root the inner loop has not reached yet
  discovered,     \* the (file_path) of every file the loops have reached
  total_count,
  success_count,
  log,            \* one record per call of add_watermark_to_image
  saved,          \* the canonical paths img.save has saved to in this run
  partial,        \* those at which an img.save that failed left a file
  summary         \* <<>> until the summary is printed, then <<total, success, failed>>

walkVars == <<input_path, fs0, fs, pc, output_dir, stack, root, files,
              discovered, total_count, success_count, log, saved, partial, summary>>

\* The text of one image (lines 65-73).
VARIABLES
  img,             \* the image at image_path, as get_exif_date finds it
  default_text,    \* the --default-text argument, None when not given
  now,             \* datetime.now() as YYYY-MM-DD
  exif,            \* what get_exif_date ended with
  watermark_text,  \* the text to draw, None until it is chosen
  tpc              \* "exif", "text", "done"

textVars == <<img, default_text, now, exif, watermark_text, tpc>>

\* The placement of the text (lines 88-105).
VARIABLES
  position,     \* the position argument
  size,         \* img.size: <<width, height>>
  textsize,     \* draw.textsize(...): <<text_width, text_height>>
  text_xy,      \* <<text_x, text_y>>, <<>> until it is computed
  apc           \* "anchor", "done"

anchorVars == <<position, size, textsize, text_xy, apc>>

\* The fill of the text (lines 107-116).
VARIABLES
  color,        \* the color argument
  opacity,      \* the opacity argument
  rgba_color,   \* the fill given to draw.text, <<>> until it is computed
  fpc           \* "fill", "done"

fillVars == <<color, opacity, rgba_color, fpc>>

vars == <<walkVars, textVars, anchorVars, fillVars>>

(***************************************************************************)
(* Strings.                                                                 *)
(***************************************************************************)

\* s[i] of Python (1-based here): the one-character string at position i.
Ch(s, i) == SubSeq(s, i, i)

RECURSIVE RFindFrom(_, _, _)
\* The last position of character c in the first i characters of s, 0 when absent.
RFindFrom(s, c, i) ==
  IF i = 0 THEN 0 ELSE IF Ch(s, i) = c THEN i ELSE RFindFrom(s, c, i - 1)

\* s.rfind(c) + 1: the last position of character c in s, 0 when absent.
RFind(s, c) == RFindFrom(s, c, Len(s))

RECURSIVE FindFrom(_, _, _)
\* The first position of character c in s from position i on, 0 when absent.
FindFrom(s, c, i) ==
  IF i > Len(s) THEN 0 ELSE IF Ch(s, i) = c THEN i ELSE FindFrom(s, c, i + 1)

\* s.find(c) + 1: the first position of character c in s, 0 when absent.
Find(s, c) == FindFrom(s, c, 1)

\* str.lower on one character.
LowerCh(c) ==
  CASE c = "A" -> "a" [] c = "B" -> "b" [] c = "C" -> "c" [] c = "D" -> "d"
    [] c = "E" -> "e" [] c = "F" -> "f" [] c = "G" -> "g" [] c = "H" -> "h"
    [] c = "I" -> "i" [] c = "J" -> "j" [] c = "K" -> "k" [] c = "L" -> "l"
    [] c = "M" -> "m" [] c = "N" -> "n" [] c = "O" -> "o" [] c = "P" -> "p"
    [] c = "Q" -> "q" [] c = "R" -> "r" [] c = "S" -> "s" [] c = "T" -> "t"
    [] c = "U" -> "u" [] c = "V" -> "v" [] c = "W" -> "w" [] c = "X" -> "x"
    [] c = "Y" -> "y" [] c = "Z" -> "z" [] OTHER -> c

RECURSIVE lower(_)
\* str.lower
lower(s) == IF s = "" THEN "" ELSE LowerCh(Ch(s, 1)) \o lower(SubSeq(s, 2, Len(s)))

RECURSIVE rstrip(_)
\* str.rstrip('/')
rstrip(s) ==
  IF s # "" /\ Ch(s, Len(s)) = "/" THEN rstrip(SubSeq(s, 1, Len(s) - 1)) ELSE s

RECURSIVE split(_, _)
\* str.split(sep) for a one-character separator: the sequence of the pieces.
split(s, sep) ==
  LET i == Find(s, sep)
  IN  IF i = 0 THEN <<s>>
      ELSE <<SubSeq(s, 1, i - 1)>> \o split(SubSeq(s, i + 1, Len(s)), sep)

(***************************************************************************)
(* os.path (posixpath).                                                     *)
(***************************************************************************)

\* os.path.dirname
dirname(p) ==
  LET i    == RFind(p, "/")
      head == SubSeq(p, 1, i)
  IN  IF head # "" /\ rstrip(head) # "" THEN rstrip(head) ELSE head

\* os.path.basename
basename(p) == SubSeq(p, RFind(p, "/") + 1, Len(p))

\* os.path.join of two parts
join(a, b) ==
  IF b # "" /\ Ch(b, 1) = "/" THEN b
  ELSE IF a = "" \/ Ch(a, Len(a)) = "/" THEN a \o b
  ELSE a \o "/" \o b

\* os.path.splitext(p)[1]: the extension starts at the last dot of the last
\* component, unless only dots precede it there.
splitext(p) ==
  LET sepIndex == RFind(p, "/")
      dotIndex == RFind(p, ".")
  IN  IF dotIndex > sepIndex
         /\ \E k \in (sepIndex + 1)..(dotIndex - 1) : Ch(p, k) # "."
      THEN SubSeq(p, dotIndex, Len(p))
      ELSE ""

RECURSIVE Collapse(_, _)
\* The loop of os.path.normpath over the components of an absolute path:
\* empty and "." components are dropped, ".." removes the component before it
\* (and is dropped at the root).
Collapse(comps, acc) ==
  IF comps = <<>> THEN acc
  ELSE LET c    == Head(comps)
           rest == Tail(comps)
       IN  IF c = "" \/ c = "." THEN Collapse(rest, acc)
           ELSE IF c = ".."
                THEN Collapse(rest, IF acc = <<>> THEN acc
                                    ELSE SubSeq(acc, 1, Len(acc) - 1))
           ELSE Collapse(rest, Append(acc, c))

\* The current working directory of the process.
cwd == "/w"

\* os.path.abspath, as the sequence of the component names from the root.
abspath(p) == Collapse(split(join(cwd, p), "/"), <<>>)

RECURSIVE JoinAll(_)
\* sep.join(names), "." when there is none (the last line of relpath)
JoinAll(names) ==
  IF names = <<>> THEN "."
  ELSE IF Len(names) = 1 THEN names[1]
  ELSE names[1] \o "/" \o JoinAll(Tail(names))

\* os.path.relpath(path, start)
relpath(path, start) ==
  LET start_list == abspath(start)
      path_list  == abspath(path)
      m  == IF Len(start_list) < Len(path_list) THEN Len(start_list)
            ELSE Len(path_list)
      i  == CHOOSE k \in 0..m :
              /\ \A j \in 1..k : start_list[j] = path_list[j]
              /\ k = m \/ start_list[k + 1] # path_list[k + 1]
      ups == [j \in 1..(Len(start_list) - i) |-> ".."]
  IN  JoinAll(ups \o SubSeq(path_list, i + 1, Len(path_list)))

(***************************************************************************)
(* process_path.                                                            *)
(***************************************************************************)
\* The most files the tree holds when the run starts.
MaxFiles == 3

\* The files a tree is drawn from: a directory p under the working directory
\* with two levels of subdirectories, the upper-case and two-dot names that
\* exercise the extension test, a dot file, and what earlier runs left behind.
Universe ==
  { <<"w", "a.jpg">>,
    <<"w", "p", "a.jpg">>,
    <<"w", "p", "B.x.PNG">>,
    <<"w", "p", "n.txt">>,
    <<"w", "p", ".bmp">>,
    <<"w", "p", "s", "a.jpg">>,
    <<"w", "p", "s", "t", "c.gif">>,
    <<"w", "p", "_watermark", "a.jpg">>,
    <<"w", "p_watermark", "a.jpg">> }

Trees == {t \in SUBSET Universe : Cardinality(t) <= MaxFiles}

\* The ways the --path argument is typed.
Inputs ==
  { "p", "p/", "/w/p", "p/.", ".", "p/s",
    "p/a.jpg", "a.jpg", "./a.jpg", "p/n.txt", "p/B.x.PNG",
    "q" }

\* os.path.isfile, os.path.isdir, os.path.exists on the file system t
isfile(t, p) == abspath(p) \in t
isdir(t, p) ==
  LET a == abspath(p)
  IN  \E f \in t : Len(f) > Len(a) /\ SubSeq(f, 1, Len(a)) = a
exists(t, p) == isfile(t, p) \/ isdir(t, p)

\* os.scandir as os.walk uses it: the names of the files and of the
\* subdirectories of directory top
ScanFiles(t, top) ==
  LET a == abspath(top)
  IN  {f[Len(f)] : f \in {g \in t : Len(g) = Len(a) + 1 /\ SubSeq(g, 1, Len(a)) = a}}
ScanDirs(t, top) ==
  LET a == abspath(top)
  IN  {f[Len(a) + 1] : f \in {g \in t : Len(g) > Len(a) + 1 /\ SubSeq(g, 1, Len(a)) = a}}

\* The orders in which a scan may list the names of S.
Orderings(S) ==
  {q \in [1..Cardinality(S) -> S] : \A i, j \in 1..Cardinality(S) : q[i] = q[j] => i = j}

supported_formats == {".jpg", ".jpeg", ".png", ".bmp", ".tiff", ".gif"}

\* The test of lines 168-169 and 179-180.
IsSupported(name) == lower(splitext(name)) \in supported_formats

\* The directory process_path writes to (lines 153-160).
OutputDir(t, p) ==
  IF isdir(t, p)
  THEN LET parent_dir == IF dirname(p) # "" THEN dirname(p) ELSE "."
           dir_name   == basename(p)
       IN  join(parent_dir, dir_name \o "_watermark")
  ELSE LET parent_dir == dirname(p)
           dir_name   == basename(parent_dir)
       IN  join(parent_dir, dir_name \o "_watermark")

\* Where a call of add_watermark_to_image can fail: nowhere; in Image.open;
\* while measuring and drawing the text; in os.makedirs or in img.save before
\* the output file is opened; in img.save after it has opened the output file.
Faults == {"none", "open", "draw", "save", "write"}

\* A variant of add_watermark_to_image whose handler catches too little: a
\* failure of img.save reaches the caller.
add_watermark_to_image_SaveRaises(image_path, out_dir, fault) ==
  LET output_path == join(out_dir, basename(image_path))
      output_file == abspath(output_path)
  IN  [ output_path |-> output_path,
        output_file |-> output_file,
        saved       |-> IF fault = "none" THEN {output_file} ELSE {},
        left        |-> IF fault = "write" THEN {output_file} ELSE {},
        raised      |-> fault \in {"save", "write"},
        ok          |-> fault = "none" ]

\* A variant of add_watermark_to_image that reports success although
\* img.save failed.
add_watermark_to_image_TrueAfterFailedSave(image_path, out_dir, fault) ==
  LET output_path == join(out_dir, basename(image_path))
      output_file == abspath(output_path)
  IN  [ output_path |-> output_path,
        output_file |-> output_file,
        saved       |-> IF fault = "none" THEN {output_file} ELSE {},
        left        |-> IF fault = "write" THEN {output_file} ELSE {},
        raised      |-> FALSE,
        ok          |-> fault \in {"none", "save"} ]

\* add_watermark_to_image (lines 59-131), as process_path sees it: the path it
\* saves to, the file of the file system that path names, the file it saves,
\* if any, and the boolean it returns.  Every exception is caught at
\* line 129, so none is raised to the caller.  img.save(output_path) opens the
\* output file for writing and then encodes the image into it; when the
\* encoding or the writing fails, the file it opened (new and incomplete, or
\* an older output now truncated) is at output_path although nothing was saved.
add_watermark_to_image(image_path, out_dir, fault) ==
  LET output_path == join(out_dir, basename(image_path))
      output_file == abspath(output_path)
  IN  [ output_path |-> output_path,
        output_file |-> output_file,
        saved       |-> IF fault = "none" THEN {output_file} ELSE {},
        left        |-> IF fault = "write" THEN {output_file} ELSE {},
        raised      |-> FALSE,
        ok          |-> fault = "none" ]

\* The output directory of a file found in directory r of the walk (lines 184-188).
TargetOutputDir(r) ==
  LET rel_path == relpath(r, input_path)
  IN  IF rel_path = "." THEN output_dir ELSE join(output_dir, rel_path)

Summary(total, success) == <<total, success, total - success>>

\* The record of a call of add_watermark_to_image on file_path with result r:
\* n counts the earlier calls on the same file, and after_failure tells
\* whether an earlier call of the run had failed.
Call(file_path, r) ==
  [ file_path     |-> file_path,
    output_path   |-> r.output_path,
    output_file   |-> r.output_file,
    ok            |-> r.ok,
    n             |-> Cardinality({c \in log : c.file_path = file_path}),
    after_failure |-> success_count < total_count ]

WalkInit ==
  /\ input_path \in Inputs
  /\ fs0 \in Trees
  /\ fs = fs0
  /\ pc = "start"
  /\ output_dir = ""
  /\ stack = <<>>
  /\ root = ""
  /\ files = {}
  /\ discovered = {}
  /\ total_count = 0
  /\ success_count = 0
  /\ log = {}
  /\ saved = {}
  /\ partial = {}
  /\ summary = <<>>

\* Lines 145-147: the path does not exist; an error is printed and nothing else happens.
NotFound ==
  /\ pc = "start"
  /\ ~exists(fs, input_path)
  /\ pc' = "done"
  /\ UNCHANGED <<input_path, fs0, fs, output_dir, stack, root, files, discovered,
                 total_count, success_count, log, saved, partial, summary>>
  /\ UNCHANGED <<textVars, anchorVars, fillVars>>

\* Lines 157-172 and 194-197: a single file with a supported extension.
SingleFile ==
  /\ pc = "start"
  /\ isfile(fs, input_path)
  /\ IsSupported(input_path)
  /\ LET out == OutputDir(fs, input_path)
     IN  \E r \in {add_watermark_to_image(input_path, out, fault) : fault \in Faults} :
           /\ output_dir' = out
           /\ discovered' = {input_path}
           /\ total_count' = 1
           /\ success_count' = IF r.ok THEN 1 ELSE 0
           /\ log' = log \cup {Call(input_path, r)}
           /\ fs' = fs \cup r.saved \cup r.left
           /\ saved' = r.saved
           /\ partial' = r.left
           /\ summary' = IF r.raised THEN <<>>
                         ELSE Summary(1, IF r.ok THEN 1 ELSE 0)
  /\ pc' = "done"
  /\ UNCHANGED <<input_path, fs0, stack, root, files>>
  /\ UNCHANGED <<textVars, anchorVars, fillVars>>

\* Lines 157-169, 173-174 and 194-197: a single file of another type is
\* warned about and not processed.
SingleFileUnsupported ==
  /\ pc = "start"
  /\ isfile(fs, input_path)
  /\ ~IsSupported(input_path)
  /\ output_dir' = OutputDir(fs, input_path)
  /\ discovered' = {input_path}
  /\ summary' = Summary(total_count, success_count)
  /\ pc' = "done"
  /\ UNCHANGED <<input_path, fs0, fs, stack, root, files, total_count,
                 success_count, log, saved, partial>>
  /\ UNCHANGED <<textVars, anchorVars, fillVars>>

\* Lines 153-156, 163-164 and 177: a directory; os.walk starts at input_path.
StartWalk ==
  /\ pc = "start"
  /\ ~isfile(fs, input_path)
  /\ isdir(fs, input_path)
  /\ output_dir' = OutputDir(fs, input_path)
  /\ stack' = <<input_path>>
  /\ pc' = "walk"
  /\ UNCHANGED <<input_path, fs0, fs, root, files, discovered, total_count,
                 success_count, log, saved, partial, summary>>
  /\ UNCHANGED <<textVars, anchorVars, fillVars>>

\* Line 177: os.walk scans the next directory, when the files of the last one
\* are exhausted: it lists the directory as it is now, yields its files and
\* leaves its subdirectories to be scanned next, in the order of the listing.
WalkNext ==
  /\ pc = "walk"
  /\ files = {}
  /\ stack # <<>>
  /\ LET top == stack[Len(stack)]
     IN  /\ root' = top
         /\ files' = ScanFiles(fs, top)
         /\ \E dirs \in Orderings(ScanDirs(fs, top)) :
              stack' = SubSeq(stack, 1, Len(stack) - 1)
                         \o [i \in 1..Len(dirs) |-> join(top, dirs[Len(dirs) + 1 - i])]
  /\ UNCHANGED <<input_path, fs0, fs, pc, output_dir, discovered, total_count,
                 success_count, log, saved, partial, summary>>
  /\ UNCHANGED <<textVars, anchorVars, fillVars>>

\* Lines 178-191: a file with a supported extension is counted and processed.
\* An exception that add_watermark_to_image let through would end the run.
AttemptFile ==
  /\ pc = "walk"
  /\ \E file \in files :
       LET file_path == join(root, file)
           target_output_dir == TargetOutputDir(root)
       IN  /\ IsSupported(file)
           /\ files' = files \ {file}
           /\ discovered' = discovered \cup {file_path}
           /\ total_count' = total_count + 1
           /\ \E r \in {add_watermark_to_image(file_path, target_output_dir, fault) :
                          fault \in Faults} :
                /\ success_count' = IF r.ok THEN success_count + 1 ELSE success_count
                /\ log' = log \cup {Call(file_path, r)}
                /\ fs' = fs \cup r.saved \cup r.left
                /\ saved' = saved \cup r.saved
                /\ partial' = partial \cup r.left
                /\ pc' = IF r.raised THEN "done" ELSE "walk"
  /\ UNCHANGED <<input_path, fs0, output_dir, stack, root, summary>>
  /\ UNCHANGED <<textVars, anchorVars, fillVars>>

\* Lines 178-180: a file of another type is passed over.
SkipFile ==
  /\ pc = "walk"
  /\ \E file \in files :
       /\ ~IsSupported(file)
       /\ files' = files \ {file}
       /\ discovered' = discovered \cup {join(root, file)}
  /\ UNCHANGED <<input_path, fs0, fs, pc, output_dir, stack, root, total_count,
                 success_count, log, saved, partial, summary>>
  /\ UNCHANGED <<textVars, anchorVars, fillVars>>

\* Lines 193-197: the walk is over and the summary is printed.
PrintSummary ==
  /\ pc = "walk"
  /\ files = {}
  /\ stack = <<>>
  /\ summary' = Summary(total_count, success_count)
  /\ pc' = "done"
  /\ UNCHANGED <<input_path, fs0, fs, output_dir, stack, root, files, discovered,
                 total_count, success_count, log, saved, partial>>
  /\ UNCHANGED <<textVars, anchorVars, fillVars>>

(***************************************************************************)
(* get_exif_date and the choice of the watermark text.                      *)
(***************************************************************************)

\* An optional string: None, or the string in a one-element sequence.
None == <<>>
Some(str) == <<str>>

\* Python's truth value of an optional string: None and "" are false.
Truthy(v) == v # None /\ v[1] # ""

Digits == "0123456789"

\* int(c) for a one-character string, -1 when c is no digit
DigitVal(c) == Find(Digits, c) - 1

RECURSIVE ParseNat(_, _)
\* int(s) for a string of digits read after the value acc, -1 for anything else
ParseNat(s, acc) ==
  IF s = "" THEN acc
  ELSE IF DigitVal(Ch(s, 1)) < 0 THEN -1
  ELSE ParseNat(SubSeq(s, 2, Len(s)), 10 * acc + DigitVal(Ch(s, 1)))

\* A field of a strptime format: at least lo and at most hi digits, with a
\* value in min..max; -1 when the text is no such field.
Field(s, lo, hi, min, max) ==
  IF Len(s) < lo \/ Len(s) > hi THEN -1
  ELSE LET v == ParseNat(s, 0)
       IN  IF v >= min /\ v <= max THEN v ELSE -1

\* datetime's _days_in_month
days_in_month(year, month) ==
  IF month = 2
  THEN IF year % 4 = 0 /\ (year % 100 # 0 \/ year % 400 = 0) THEN 29 ELSE 28
  ELSE IF month \in {4, 6, 9, 11} THEN 30 ELSE 31

\* The result of a call that may raise: the exception's class ("" when none
\* was raised) and the value returned.
Raised(exc) == [exc |-> exc, date |-> <<>>]
Returned(date) == [exc |-> "", date |-> date]

\* The pieces of s between runs of spaces; a leading or trailing space leaves
\* an empty piece at that end.
Words(s) ==
  LET pieces == split(s, " ")
      keep   == {i \in 1..Len(pieces) :
                   pieces[i] # "" \/ i = 1 \/ i = Len(pieces)}
      Nth(k) == CHOOSE i \in keep : Cardinality({j \in keep : j < i}) = k - 1
  IN  [k \in 1..Cardinality(keep) |-> pieces[Nth(k)]]

\* datetime.strptime(s, '%Y:%m:%d'): the whole of s must be three fields
\* separated by colons that form a date of the calendar.
strptime_date(s) ==
  LET f == split(s, ":")
  IN  IF Len(f) # 3 THEN Raised("ValueError")
      ELSE LET y == Field(f[1], 4, 4, 1, 9999)
               m == Field(f[2], 1, 2, 1, 12)
               d == Field(f[3], 1, 2, 1, 31)
           IN  IF y < 0 \/ m < 0 \/ d < 0 THEN Raised("ValueError")
               ELSE IF d > days_in_month(y, m) THEN Raised("ValueError")
               ELSE Returned(<<y, m, d>>)

\* datetime.strptime(s, '%Y:%m:%d %H:%M:%S'): a date, one or more spaces, and
\* a time of day, and nothing else.
strptime_datetime(s) ==
  LET w == Words(s)
  IN  IF Len(w) # 2 THEN Raised("ValueError")
      ELSE LET t  == split(w[2], ":")
               dt == strptime_date(w[1])
           IN  IF Len(t) # 3 THEN Raised("ValueError")
               ELSE IF \/ Field(t[1], 1, 2, 0, 23) < 0
                       \/ Field(t[2], 1, 2, 0, 59) < 0
                       \/ Field(t[3], 1, 2, 0, 59) < 0
                    THEN Raised("ValueError")
               ELSE dt

\* One decimal digit, and a number in two and in four digits.
DigitStr(n) == SubSeq(Digits, n + 1, n + 1)
Pad2(n) == DigitStr((n \div 10) % 10) \o DigitStr(n % 10)
Pad4(n) == Pad2(n \div 100) \o Pad2(n % 100)

\* date_obj.strftime('%Y-%m-%d')
strftime(date) == Pad4(date[1]) \o "-" \o Pad2(date[2]) \o "-" \o Pad2(date[3])

\* The handler of line 35, of line 40 and of line 42: the classes each catches.
CaughtAsValueError(exc) == exc = "ValueError"
CaughtByBareExcept(exc) == exc # ""
\* A variant of the handler of line 42 that catches ValueError alone.
CaughtAsException_OnlyValueError(exc) == exc = "ValueError"

CaughtAsException(exc) ==
  exc \in {"ValueError", "TypeError", "AttributeError", "OSError"}

\* What a call of get_exif_date ends with: an exception that left it (exc),
\* or the value returned, with the parse that produced it (via).
ExifResult(exc, value, via) == [exc |-> exc, value |-> value, via |-> via]

\* get_exif_date (lines 17-44).  image is what Image.open finds at image_path:
\* kind says how far the read gets ("unreadable": Image.open raises;
\* "no_getexif": the image has no _getexif method; "no_exif": _getexif()
\* returns nothing; "no_tag": no entry 36867; "tag": the entry is there), and
\* date_str is the entry, a string unless is_str is FALSE.
get_exif_date(image) ==
  LET \* lines 24-41, the body of the outer try
      first  == IF image.is_str THEN strptime_datetime(image.date_str)
                ELSE Raised("TypeError")
      second == strptime_date(split(image.date_str, " ")[1])
      body ==
        IF image.kind = "unreadable" THEN ExifResult("OSError", None, "none")
        ELSE IF image.kind = "no_getexif" THEN ExifResult("AttributeError", None, "none")
        ELSE IF image.kind \in {"no_exif", "no_tag"} THEN ExifResult("", None, "none")
        ELSE IF first.exc = "" THEN ExifResult("", Some(strftime(first.date)), "full")
        ELSE IF ~CaughtAsValueError(first.exc) THEN ExifResult(first.exc, None, "none")
        ELSE IF second.exc = "" THEN ExifResult("", Some(strftime(second.date)), "date_only")
        ELSE IF CaughtByBareExcept(second.exc) THEN ExifResult("", None, "none")
        ELSE ExifResult(second.exc, None, "none")
  IN  \* lines 42-44
      IF body.exc # "" /\ CaughtAsException(body.exc)
      THEN ExifResult("", None, "none")
      ELSE body

\* A variant of the choice of the text that prefers the default text to the
\* capture date.
WatermarkText_DefaultFirst(exif_date, default, today) ==
  IF Truthy(default) THEN default[1]
  ELSE IF Truthy(exif_date) THEN exif_date[1]
  ELSE today

\* The text add_watermark_to_image draws (lines 66-72).
WatermarkText(exif_date, default, today) ==
  IF Truthy(exif_date) THEN exif_date[1]
  ELSE IF Truthy(default) THEN default[1]
  ELSE today

\* The capture dates and times of day the metadata is written from; the
\* month 13, the 31st and the 29th of February 2023, the hour 25 and the second
\* 60 are those no calendar or clock has.
Years == {2023, 2024}
Months == {2, 10, 13}
Days == {9, 29, 31}
Times  == {<<14, 30, 25>>, <<25, 0, 0>>, <<7, 5, 60>>}

\* The ways the capture date is written in the metadata.
Shapes == {"full", "date_only", "two_spaces", "leading_space", "hyphens",
           "suffix", "T", "unpadded"}

\* A number as str() writes it, below 100.
Unpadded(n) == IF n < 10 THEN DigitStr(n) ELSE Pad2(n)

\* The metadata text of date ymd and time hms in the given shape.
DateStr(shape, ymd, hms) ==
  LET D == Pad4(ymd[1]) \o ":" \o Pad2(ymd[2]) \o ":" \o Pad2(ymd[3])
      T == Pad2(hms[1]) \o ":" \o Pad2(hms[2]) \o ":" \o Pad2(hms[3])
  IN  CASE shape = "full"          -> D \o " " \o T
        [] shape = "date_only"     -> D
        [] shape = "two_spaces"    -> D \o "  " \o T
        [] shape = "leading_space" -> " " \o D \o " " \o T
        [] shape = "hyphens"       -> Pad4(ymd[1]) \o "-" \o Pad2(ymd[2]) \o "-"
                                        \o Pad2(ymd[3]) \o " " \o T
        [] shape = "suffix"        -> D \o " " \o T \o " UTC"
        [] shape = "T"             -> D \o "T" \o T
        [] shape = "unpadded"      -> Pad4(ymd[1]) \o ":" \o Unpadded(ymd[2]) \o ":"
                                        \o Unpadded(ymd[3]) \o " " \o Unpadded(hms[1])
                                        \o ":" \o Unpadded(hms[2]) \o ":" \o Unpadded(hms[3])

\* The images get_exif_date is given: those without a capture date, one whose
\* capture date is not a string, and those whose capture date is a text.
Images ==
  {[kind |-> k, is_str |-> TRUE, date_str |-> "", shape |-> "none",
    ymd |-> <<>>, hms |-> <<>>] : k \in {"unreadable", "no_getexif", "no_exif", "no_tag"}}
  \cup {[kind |-> "tag", is_str |-> FALSE, date_str |-> "", shape |-> "none",
         ymd |-> <<>>, hms |-> <<>>]}
  \cup {[kind |-> "tag", is_str |-> TRUE, date_str |-> DateStr(sh, <<y, m, d>>, t),
         shape |-> sh, ymd |-> <<y, m, d>>, hms |-> t] :
          sh \in Shapes, y \in Years, m \in Months, d \in Days, t \in Times}

DefaultTexts == {None, Some(""), Some("X"), Some("2001-01-01")}

TextInit ==
  /\ img \in Images
  /\ default_text \in DefaultTexts
  /\ now \in {"2026-11-01"}
  /\ exif = ExifResult("", None, "none")
  /\ watermark_text = None
  /\ tpc = "exif"

\* The variables of the text choice while another part of the program is examined.
TextIdle ==
  /\ img = [kind |-> "no_exif", is_str |-> TRUE, date_str |-> "", shape |-> "none",
            ymd |-> <<>>, hms |-> <<>>]
  /\ default_text = None
  /\ now = ""
  /\ exif = ExifResult("", None, "none")
  /\ watermark_text = None
  /\ tpc = "idle"

\* Line 66: add_watermark_to_image calls get_exif_date.
GetExifDate ==
  /\ tpc = "exif"
  /\ exif' = get_exif_date(img)
  /\ tpc' = "text"
  /\ UNCHANGED <<img, default_text, now, watermark_text>>
  /\ UNCHANGED <<walkVars, anchorVars, fillVars>>

\* Lines 67-73: the text is chosen.  An exception out of get_exif_date would
\* end the call at line 129 with no text chosen.
ChooseText ==
  /\ tpc = "text"
  /\ watermark_text' = IF exif.exc # "" THEN None
                       ELSE Some(WatermarkText(exif.value, default_text, now))
  /\ tpc' = "done"
  /\ UNCHANGED <<img, default_text, now, exif>>
  /\ UNCHANGED <<walkVars, anchorVars, fillVars>>

(***************************************************************************)
(* The anchor of the text (lines 88-105).                                   *)
(***************************************************************************)

margin == 10

\* The largest width and height of an image and of a text.
MaxDim == 4

\* The widths and heights of the images and of the texts: the small ones, where
\* the text may be larger than the image, and those of a photograph and of a
\* line of text.
ImageDims == (0..MaxDim) \cup {481, 640}
TextDims == (0..MaxDim) \cup {37}

Positions == {"top-left", "top-right", "bottom-left", "bottom-right", "center",
              "middle"}

\* Python's a // 2
FloorHalf(a) == a \div 2

\* A variant of the anchor that leaves the margin out on the right.
Anchor_NoRightMargin(pos, width, height, text_width, text_height) ==
  CASE pos = "top-left"     -> <<margin, margin>>
    [] pos = "top-right"    -> <<width - text_width, margin>>
    [] pos = "bottom-left"  -> <<margin, height - text_height - margin>>
    [] pos = "center"       -> <<FloorHalf(width - text_width),
                                 FloorHalf(height - text_height)>>
    [] OTHER                -> <<width - text_width,
                                 height - text_height - margin>>

\* Lines 93-105: (text_x, text_y)
Anchor(pos, width, height, text_width, text_height) ==
  CASE pos = "top-left"     -> <<margin, margin>>
    [] pos = "top-right"    -> <<width - text_width - margin, margin>>
    [] pos = "bottom-left"  -> <<margin, height - text_height - margin>>
    [] pos = "bottom-right" -> <<width - text_width - margin,
                                      height - text_height - margin>>
    [] pos = "center"       -> <<FloorHalf(width - text_width),
                                      FloorHalf(height - text_height)>>
    [] OTHER                     -> <<width - text_width - margin,
                                      height - text_height - margin>>

AnchorInit ==
  /\ position \in Positions
  /\ size \in ImageDims \X ImageDims
  /\ textsize \in TextDims \X TextDims
  /\ text_xy = <<>>
  /\ apc = "anchor"

AnchorIdle ==
  /\ position = "bottom-right"
  /\ size = <<0, 0>>
  /\ textsize = <<0, 0>>
  /\ text_xy = <<>>
  /\ apc = "idle"

\* Lines 88-105.
ComputeAnchor ==
  /\ apc = "anchor"
  /\ text_xy' = Anchor(position, size[1], size[2], textsize[1], textsize[2])
  /\ apc' = "done"
  /\ UNCHANGED <<position, size, textsize>>
  /\ UNCHANGED <<walkVars, textVars, fillVars>>

(***************************************************************************)
(* The fill of the text (lines 107-116).                                    *)
(***************************************************************************)

\* The largest opacity the command line accepts (choices=range(0, 101)).
MaxOpacity == 100

\* ImageColor.getrgb for the names used here
getrgb(name) ==
  CASE name = "white" -> <<255, 255, 255>>
    [] name = "black" -> <<0, 0, 0>>
    [] name = "red"   -> <<255, 0, 0>>
    [] name = "blue"  -> <<0, 0, 255>>

\* A variant of the alpha that rounds half up instead of dropping the fraction.
Alpha_Rounded(opa) == (255 * opa + 50) \div 100

\* int(255 * opacity / 100): 255 * opacity / 100 is the float nearest the
\* quotient, which is the quotient itself when it is whole and otherwise lies
\* at least 1/100 from a whole number, so int() gives the integer part.
Alpha(opa) == (255 * opa) \div 100

\* Lines 109-116: rgba_color.  A colour is a name (is_str) or a tuple.
RgbaColor(col, opa) ==
  IF col.is_str THEN getrgb(col.name) \o <<Alpha(opa)>>
  ELSE col.tuple

Colors ==
  {[is_str |-> TRUE, name |-> n, tuple |-> <<>>] : n \in {"white", "black", "red", "blue"}}
  \cup {[is_str |-> FALSE, name |-> "", tuple |-> <<255, 0, 0>>]}

FillInit ==
  /\ color \in Colors
  /\ opacity \in 0..MaxOpacity
  /\ rgba_color = <<>>
  /\ fpc = "fill"

FillIdle ==
  /\ color = [is_str |-> TRUE, name |-> "white", tuple |-> <<>>]
  /\ opacity = 80
  /\ rgba_color = <<>>
  /\ fpc = "idle"

\* Lines 107-116.
ComputeFill ==
  /\ fpc = "fill"
  /\ rgba_color' = RgbaColor(color, opacity)
  /\ fpc' = "done"
  /\ UNCHANGED <<color, opacity>>
  /\ UNCHANGED <<walkVars, textVars, anchorVars>>

(***************************************************************************)
(* The specifications.                                                      *)
(***************************************************************************)

WalkIdle ==
  /\ input_path = ""
  /\ fs0 = {}
  /\ fs = {}
  /\ pc = "idle"
  /\ output_dir = ""
  /\ stack = <<>>
  /\ root = ""
  /\ files = {}
  /\ discovered = {}
  /\ total_count = 0
  /\ success_count = 0
  /\ log = {}
  /\ saved = {}
  /\ partial = {}
  /\ summary = <<>>

Init == WalkInit /\ TextIdle /\ AnchorIdle /\ FillIdle

Next ==
  \/ NotFound
  \/ SingleFile
  \/ SingleFileUnsupported
  \/ StartWalk
  \/ WalkNext
  \/ AttemptFile
  \/ SkipFile
  \/ PrintSummary

\* One run of process_path.
Spec == Init /\ [][Next]_vars

InitText == TextInit /\ WalkIdle /\ AnchorIdle /\ FillIdle

NextText ==
  \/ GetExifDate
  \/ ChooseText

\* The choice of the watermark text for one image.
SpecText == InitText /\ [][NextText]_vars

InitAnchor == AnchorInit /\ WalkIdle /\ TextIdle /\ FillIdle

NextAnchor == ComputeAnchor

\* The placement of the text on one image.
SpecAnchor == InitAnchor /\ [][NextAnchor]_vars

InitFill == FillInit /\ WalkIdle /\ TextIdle /\ AnchorIdle

NextFill == ComputeFill

\* The fill of the text for one request.
SpecFill == InitFill /\ [][NextFill]_vars

(***************************************************************************)
(* What the run is measured against.                                        *)
(***************************************************************************)

\* File f lies in the directory tree rooted at directory a.
Under(a, f) == Len(f) > Len(a) /\ SubSeq(f, 1, Len(a)) = a

\* The name ends with one of the six extensions, in any case, after a
\* non-empty stem.
HasSupportedExtension(name) ==
  \E e \in supported_formats :
    /\ Len(name) > Len(e)
    /\ lower(SubSeq(name, Len(name) - Len(e) + 1, Len(name))) = e

\* The run is a directory run (a single-file run) on a path that exists.
IsDirRun == isdir(fs0, input_path) /\ ~isfile(fs0, input_path)
IsFileRun == isfile(fs0, input_path)

\* N: the files with a supported extension in the tree given to process_path.
SupportedInTree ==
  {f \in fs0 : Under(abspath(input_path), f) /\ HasSupportedExtension(f[Len(f)])}

Failures == {c \in log : ~c.ok}
Successes == {c \in log : c.ok}

\* C1: a directory run attempts exactly the N supported files of the tree it
\* was given and reports total = N, success <= N, failed = N - success; the
\* counters satisfy 0 <= success_count <= total_count throughout, and a file of
\* another type is never attempted and never saved.
C1_CountsMatchTree ==
  /\ 0 <= success_count /\ success_count <= total_count
  /\ \A c \in log : HasSupportedExtension(basename(c.file_path))
  /\ \A o \in saved \cup partial : HasSupportedExtension(o[Len(o)])
  /\ (IsDirRun /\ summary # <<>>) =>
        /\ Cardinality(log) = Cardinality(SupportedInTree)
        /\ summary[1] = Cardinality(SupportedInTree)
        /\ summary[2] <= summary[1]
        /\ summary[3] = summary[1] - summary[2]

\* C3: a failing file is counted as one failure and stops nothing: each call
\* of add_watermark_to_image is counted once, no file is attempted twice, and
\* when the run of an existing path is over every file the walk reached that
\* has a supported extension was attempted exactly once, nothing is left
\* unvisited, and the summary is printed with failed = the number of failures.
C3_FailureDoesNotAbort ==
  /\ Cardinality(log) = total_count
  /\ Cardinality(Successes) = success_count
  /\ \A c \in log : c.n = 0
  /\ (pc = "done" /\ exists(fs0, input_path)) =>
        /\ files = {} /\ stack = <<>>
        /\ \A d \in discovered :
             HasSupportedExtension(basename(d)) =>
               Cardinality({c \in log : c.file_path = d}) = 1
        /\ summary = <<total_count, success_count, Cardinality(Failures)>>

\* A finished directory run in which a file was saved after the call on
\* another file had failed.
C3_Witness ==
  /\ pc = "done"
  /\ IsDirRun
  /\ summary # <<>>
  /\ Failures # {}
  /\ \E c \in log : c.after_failure /\ c.ok

\* C6: in a directory run every saved file <root>/<rel>/<file> goes to
\* <root>_watermark/<rel>/<file>, where <root>_watermark is the sibling of the
\* input directory named after it, whatever the spelling of the root path.
C6_SiblingMirror ==
  IsDirRun =>
    \A c \in Successes :
      LET a == abspath(input_path)
          f == abspath(c.file_path)
      IN  abspath(c.output_path)
            = SubSeq(a, 1, Len(a) - 1) \o <<a[Len(a)] \o "_watermark">>
                \o SubSeq(f, Len(a) + 1, Len(f))

\* C7: in a single-file run the file <dir>/<file> is saved to
\* <dir>/<name of dir>_watermark/<file>, whatever the spelling of the path.
C7_FileOutputInParent ==
  IsFileRun =>
    \A c \in Successes :
      LET f == abspath(c.file_path)
          d == SubSeq(f, 1, Len(f) - 1)
      IN  abspath(c.output_path)
            = d \o <<d[Len(d)] \o "_watermark", f[Len(f)]>>

\* C9: no file is saved over an input file: the paths saved to differ from the
\* path of every file the run found as input.
C9_InputsNotOverwritten ==
  (saved \cup partial) \cap {abspath(d) : d \in discovered} = {}

\* C10, as claimed: a file counts as succeeded exactly when an output file
\* was written for it: the call returned True if and only if there is a file
\* this run wrote at output_dir/<basename>, and the number of output files
\* written equals success_count.
C10_SuccessIffOutputWritten ==
  /\ \A c \in log : c.ok <=> c.output_file \in saved \cup partial
  /\ Cardinality(saved \cup partial) = success_count

\* C10, amended: a file counts as succeeded exactly when its save completed:
\* the call returned True if and only if img.save completed at
\* output_dir/<basename>, the number of completed saves equals success_count,
\* and the only other files the run leaves are those a failed img.save had
\* opened, each at the output path of a call that returned False.
C10_SuccessIffSaveCompleted ==
  /\ \A c \in log :
       /\ c.ok <=> c.output_file \in saved
       /\ c.output_file[Len(c.output_file)] = basename(c.file_path)
  /\ Cardinality(saved) = success_count
  /\ partial \subseteq {c.output_file : c \in Failures}
  /\ saved \cap partial = {}
  /\ fs = fs0 \cup saved \cup partial

\* A finished run with a saved file and a file whose save failed after the
\* output file was opened.
C10_Witness ==
  /\ pc = "done"
  /\ Successes # {}
  /\ partial # {}
  /\ summary # <<>>

(***************************************************************************)
(* What the text, the anchor and the fill are measured against.             *)
(***************************************************************************)

\* The last day of a month of the calendar.
LastDay(y, m) ==
  CASE m \in {1, 3, 5, 7, 8, 10, 12} -> 31
    [] m \in {4, 6, 9, 11} -> 30
    [] m = 2 -> IF y \in {2024} THEN 29 ELSE 28
    [] OTHER -> 0

IsCalendarDate(ymd) == ymd[3] >= 1 /\ ymd[3] <= LastDay(ymd[1], ymd[2])
IsTimeOfDay(hms) == hms[1] <= 23 /\ hms[2] <= 59 /\ hms[3] <= 59

\* The image has a capture date that is a text.
HasDateText == img.kind = "tag" /\ img.is_str

\* The capture date is a date and a time of day written as YYYY:MM:DD HH:MM:SS.
InFullForm ==
  /\ HasDateText
  /\ img.shape \in {"full", "two_spaces", "unpadded"}
  /\ IsCalendarDate(img.ymd)
  /\ IsTimeOfDay(img.hms)

\* The part of the capture date before its first space is a date written as
\* YYYY:MM:DD.
DatePortionParses ==
  /\ HasDateText
  /\ img.shape \in {"full", "two_spaces", "unpadded", "date_only", "suffix"}
  /\ IsCalendarDate(img.ymd)

\* The capture date as YYYY-MM-DD.
ExpectedDate ==
  Pad4(img.ymd[1]) \o "-" \o Pad2(img.ymd[2]) \o "-" \o Pad2(img.ymd[3])

\* C2, as claimed: the text is the capture date when the metadata is in the
\* form YYYY:MM:DD HH:MM:SS; otherwise the default text, whenever one is
\* supplied; otherwise the current date.
C2_TextPriority ==
  tpc = "done" =>
    watermark_text =
      IF InFullForm THEN Some(ExpectedDate)
      ELSE IF default_text # None THEN default_text
      ELSE Some(now)

\* C2, amended: the text is the capture date as YYYY-MM-DD whenever the
\* metadata parses as YYYY:MM:DD HH:MM:SS or its part before the first space
\* parses as YYYY:MM:DD (the default text is ignored); otherwise it is the
\* default text when one is supplied and is not empty; otherwise, with no
\* default text or an empty one, it is the current date.
C2_TextPriorityAmended ==
  tpc = "done" =>
    watermark_text =
      IF DatePortionParses THEN Some(ExpectedDate)
      ELSE IF default_text # None /\ default_text # Some("") THEN default_text
      ELSE Some(now)

\* The capture date won over a default text that was supplied.
C2_Witness ==
  /\ tpc = "done"
  /\ InFullForm
  /\ default_text = Some("X")
  /\ watermark_text = Some(ExpectedDate)

\* C8: get_exif_date raises nothing; it returns the date as YYYY-MM-DD from
\* the first parse when the capture date is in the form YYYY:MM:DD HH:MM:SS,
\* from the second parse when it is not but its part before the first space is
\* a date YYYY:MM:DD, and None in every other case.
C8_ExifDateNeverRaises ==
  tpc # "exif" =>
    /\ exif.exc = ""
    /\ InFullForm => exif.value = Some(ExpectedDate) /\ exif.via = "full"
    /\ (~InFullForm /\ DatePortionParses) =>
         exif.value = Some(ExpectedDate) /\ exif.via = "date_only"
    /\ ~DatePortionParses => exif.value = None /\ exif.via = "none"

\* A capture date that is not a string was read, and None returned.
C8_Witness ==
  /\ tpc = "done"
  /\ img.kind = "tag"
  /\ ~img.is_str
  /\ exif = ExifResult("", None, "none")

\* x is the quotient of a by 2, rounded down.
IsHalf(x, a) == 2 * x <= a /\ a <= 2 * x + 1

\* C4: the anchor is (10, 10) for top-left, (width-textW-10, 10) for
\* top-right, (10, height-textH-10) for bottom-left,
\* (width-textW-10, height-textH-10) for bottom-right and for every position
\* that is none of the five, and ((width-textW)/2, (height-textH)/2), whole
\* numbers rounded down, for center.
C4_AnchorFormulas ==
  apc = "done" =>
    LET width == size[1]
        height == size[2]
        textW == textsize[1]
        textH == textsize[2]
    IN  /\ Len(text_xy) = 2
        /\ position = "top-left" => text_xy = <<10, 10>>
        /\ position = "top-right" => text_xy = <<width - textW - 10, 10>>
        /\ position = "bottom-left" => text_xy = <<10, height - textH - 10>>
        /\ position = "bottom-right" =>
             text_xy = <<width - textW - 10, height - textH - 10>>
        /\ position = "center" =>
             IsHalf(text_xy[1], width - textW) /\ IsHalf(text_xy[2], height - textH)
        /\ position \notin {"top-left", "top-right", "bottom-left", "bottom-right",
                            "center"} =>
             text_xy = <<width - textW - 10, height - textH - 10>>

\* A position that is none of the five was placed at the bottom right.
C4_Witness ==
  /\ apc = "done"
  /\ position = "middle"
  /\ size = <<640, 481>>
  /\ textsize = <<37, 4>>
  /\ text_xy = <<593, 467>>

\* round(n / d) of Python: to the nearest whole number, a half to the even one.
Round(n, d) ==
  LET q == n \div d
      r == n % d
  IN  IF 2 * r < d THEN q
      ELSE IF 2 * r > d THEN q + 1
      ELSE IF q % 2 = 0 THEN q ELSE q + 1

\* C5, as claimed: the fill is an RGBA tuple whose alpha is
\* round(255 * opacity / 100), for a colour name and for an RGB triple.
C5_AlphaRounded ==
  fpc = "done" =>
    /\ Len(rgba_color) = 4
    /\ rgba_color[4] = Round(255 * opacity, 100)

\* C5, amended: for a colour name the fill is the colour's RGB with the alpha
\* 255 * opacity / 100 rounded down (0 for opacity 0, 255 for opacity 100); a
\* colour that is not a string is the fill as it is, whatever the opacity.
C5_AlphaTruncated ==
  fpc = "done" =>
    IF color.is_str
    THEN /\ Len(rgba_color) = 4
         /\ SubSeq(rgba_color, 1, 3) = getrgb(color.name)
         /\ 100 * rgba_color[4] <= 255 * opacity
         /\ 255 * opacity < 100 * (rgba_color[4] + 1)
         /\ opacity = 0 => rgba_color[4] = 0
         /\ opacity = 100 => rgba_color[4] = 255
    ELSE rgba_color = color.tuple

\* Opacity 50 gave the alpha 127, where rounding gives 128.
C5_Witness ==
  /\ fpc = "done"
  /\ color.is_str
  /\ opacity = 50
  /\ rgba_color[4] = 127

=============================================================================
